---- MODULE Spec2Model ----
(***************************************************************************)
(* Model of api/predict.py: the model loader, the feature transformer,     *)
(* the Flask routes health() and predict(), and the serverless handler().  *)
(*                                                                         *)
(* JSON / Python values are tagged records [k |-> kind, v |-> payload]:    *)
(*   "null" (v = 0), "bool" (v \in BOOLEAN), "int" (v \in Int),            *)
(*   "float" (v = the value in units of 1/FScale), "str" (v a string),     *)
(*   "list" (v a sequence of values), "dict" (v a function from keys).     *)
(***************************************************************************)
EXTENDS Integers, Sequences, FiniteSets, TLC

VARIABLES
    pc,            \* "start" before the module-level load_model() call, then "serving"
    file,          \* what is at MODEL_PATH on disk
    model,         \* the process-wide global `model`
    model_loaded,  \* the global assigned from load_model()'s return value
    request,       \* the logical request being answered
    now,           \* datetime.now() while the request is answered
    flask_resp,    \* what the Flask route returned for `request`
    handler_resp,  \* what handler(event, context) returned for `request`
    tf_in,         \* argument of a direct transform_features_for_prediction call
    tf_out         \* its outcome

vars == <<pc, file, model, model_loaded, request, now, flask_resp, handler_resp, tf_in, tf_out>>

-----------------------------------------------------------------------------
(* Bounds of the model *)

\* longest features list in a request
MaxBatch == 2
\* latest clock reading
MaxClock == 1
\* most fields of a RawFeatures mapping edited away from the base mapping
MaxEdits == 2

-----------------------------------------------------------------------------
(* Python values *)

\* a Python float x is the integer x * FScale (fixed point, 7 decimals)
FScale == 10 * 1000 * 1000

Null == [k |-> "null", v |-> 0]
PyBool(b) == [k |-> "bool", v |-> b]
PyInt(n) == [k |-> "int", v |-> n]
\* the float n / d, for d a divisor of FScale
PyFloat(n, d) == [k |-> "float", v |-> n * (FScale \div d)]
PyStr(s) == [k |-> "str", v |-> s]
PyList(s) == [k |-> "list", v |-> s]
PyDict(f) == [k |-> "dict", v |-> f]

\* type(x).__name__
TypeName(x) == IF x.k = "null" THEN "NoneType" ELSE x.k

\* bool(x): the truth value Python's `if x` / `not x` uses
Truthy(x) ==
    CASE x.k = "null" -> FALSE
      [] x.k = "bool" -> x.v
      [] x.k = "int" -> x.v # 0
      [] x.k = "float" -> x.v # 0
      [] x.k = "str" -> x.v # ""
      [] x.k = "list" -> Len(x.v) > 0
      [] x.k = "dict" -> DOMAIN x.v # {}

\* the types arithmetic with int and float accepts (bool is a subclass of int)
IsNumber(x) == x.k \in {"int", "float", "bool"}

\* a number as fixed point
NumVal(x) ==
    CASE x.k = "bool" -> (IF x.v THEN FScale ELSE 0)
      [] x.k = "int" -> x.v * FScale
      [] x.k = "float" -> x.v

\* a whole number as an integer (the sine tables below are indexed by whole numbers)
AsInt(x) ==
    CASE x.k = "bool" -> (IF x.v THEN 1 ELSE 0)
      [] x.k = "int" -> x.v
      [] x.k = "float" -> x.v \div FScale

\* d.get(key, default)
Get(d, key, default) == IF key \in DOMAIN d.v THEN d.v[key] ELSE default

\* outcome of a call: a value, or a raised exception with str(e) = msg
Ok(val) == [ok |-> TRUE, val |-> val, msg |-> ""]
Raise(msg) == [ok |-> FALSE, val |-> Null, msg |-> msg]

-----------------------------------------------------------------------------
(* math.sin / math.cos of 2*pi*n/period, in hundredths *)

\* 100 * sin(i * 15 degrees), i = 0..23
SinQ == <<0, 26, 50, 71, 87, 97, 100, 97, 87, 71, 50, 26,
          0, -26, -50, -71, -87, -97, -100, -97, -87, -71, -50, -26>>
\* 100 * sin(2*pi*i/7) and 100 * cos(2*pi*i/7), i = 0..6
Sin7 == <<0, 78, 97, 43, -43, -97, -78>>
Cos7 == <<100, 62, -22, -90, -90, -22, 62>>

Sin100(n, period) ==
    CASE period = 24 -> SinQ[(n % 24) + 1]
      [] period = 12 -> SinQ[2 * (n % 12) + 1]
      [] period = 7 -> Sin7[(n % 7) + 1]

Cos100(n, period) ==
    CASE period = 24 -> SinQ[((n + 6) % 24) + 1]
      [] period = 12 -> SinQ[((2 * (n % 12) + 6) % 24) + 1]
      [] period = 7 -> Cos7[(n % 7) + 1]

\* a float given in hundredths
Hundredths(n) == PyFloat(n, 100)

-----------------------------------------------------------------------------
(* transform_features_for_prediction *)

base_consumption == 50

\* TypeError of `hour - 6` for a non-number
SubError(x) == "unsupported operand type(s) for -: '" \o TypeName(x) \o "' and 'int'"
\* TypeError of `2 * math.pi * x` for a non-number
MulError(x) ==
    IF x.k \in {"str", "list"}
    THEN "can't multiply sequence by non-int of type 'float'"
    ELSE "unsupported operand type(s) for *: 'float' and '" \o TypeName(x) \o "'"

\* the returned list, from the values read by the eight .get calls
FeatureVector(temperature, humidity, renewable, hour, day_of_week, month, is_weekend, is_business_hour) ==
    LET h == AsInt(hour)
        \* in thousandths
        hour_multiplier == 1000 + 3 * Sin100(h - 6, 12)
        \* in tenths
        weekend_multiplier == IF Truthy(is_weekend) THEN 12 ELSE 10
        business_multiplier == IF Truthy(is_business_hour) THEN 11 ELSE 8
        \* in 1/100000
        lag5 == base_consumption * hour_multiplier * weekend_multiplier * business_multiplier
        consumption_lag_1h == PyFloat(lag5, 100000)
        consumption_lag_24h == PyFloat(lag5 * 95, FScale)
        consumption_lag_168h == PyFloat(lag5 * 90, FScale)
        temperature_rolling_24h == temperature
        humidity_rolling_24h == humidity
        hour_sin == Hundredths(Sin100(h, 24))
        hour_cos == Hundredths(Cos100(h, 24))
        day_sin == Hundredths(Sin100(AsInt(day_of_week), 7))
        day_cos == Hundredths(Cos100(AsInt(day_of_week), 7))
        month_sin == Hundredths(Sin100(AsInt(month), 12))
        month_cos == Hundredths(Cos100(AsInt(month), 12))
        avg_consumption_same_hour == PyFloat(base_consumption * hour_multiplier, 1000)
        avg_consumption_same_day == PyFloat(base_consumption * weekend_multiplier, 10)
    IN  <<consumption_lag_1h, consumption_lag_24h, consumption_lag_168h,
          temperature_rolling_24h, humidity_rolling_24h,
          hour_sin, hour_cos, day_sin, day_cos, month_sin, month_cos,
          avg_consumption_same_hour, avg_consumption_same_day,
          is_weekend, is_business_hour, renewable>>

\* the transformer with the two flags in each other's place in the returned list
transform_SwappedFlags(features) ==
    IF features.k # "dict"
    THEN Raise("'" \o TypeName(features) \o "' object has no attribute 'get'")
    ELSE LET v == FeatureVector(Get(features, "temperature", PyFloat(22, 1)),
                                Get(features, "humidity", PyFloat(60, 1)),
                                Get(features, "renewable", PyFloat(0, 1)),
                                Get(features, "hour", PyInt(12)),
                                Get(features, "day_of_week", PyInt(1)),
                                Get(features, "month", PyInt(6)),
                                Get(features, "is_weekend", PyInt(0)),
                                Get(features, "is_business_hour", PyInt(1)))
         IN  IF \E f \in {"hour", "day_of_week", "month"} :
                    f \in DOMAIN features.v /\ ~IsNumber(features.v[f])
             THEN Raise("TypeError")
             ELSE Ok([i \in 1..16 |-> IF i = 14 THEN v[15] ELSE IF i = 15 THEN v[14] ELSE v[i]])

\* the transformer with every value it cannot compute with replaced by the default
transform_Coercing(features) ==
    LET num(key, default) ==
            IF features.k = "dict" /\ key \in DOMAIN features.v /\ IsNumber(features.v[key])
            THEN features.v[key] ELSE default
    IN  Ok(FeatureVector(num("temperature", PyFloat(22, 1)), num("humidity", PyFloat(60, 1)),
                         num("renewable", PyFloat(0, 1)), num("hour", PyInt(12)),
                         num("day_of_week", PyInt(1)), num("month", PyInt(6)),
                         num("is_weekend", PyInt(0)), num("is_business_hour", PyInt(1))))

transform_features_for_prediction(features) ==
    IF features.k # "dict"
    THEN Raise("'" \o TypeName(features) \o "' object has no attribute 'get'")
    ELSE LET temperature == Get(features, "temperature", PyFloat(22, 1))
             humidity == Get(features, "humidity", PyFloat(60, 1))
             renewable == Get(features, "renewable", PyFloat(0, 1))
             hour == Get(features, "hour", PyInt(12))
             day_of_week == Get(features, "day_of_week", PyInt(1))
             month == Get(features, "month", PyInt(6))
             is_weekend == Get(features, "is_weekend", PyInt(0))
             is_business_hour == Get(features, "is_business_hour", PyInt(1))
         IN  IF ~IsNumber(hour) THEN Raise(SubError(hour))
             ELSE IF ~IsNumber(day_of_week) THEN Raise(MulError(day_of_week))
             ELSE IF ~IsNumber(month) THEN Raise(MulError(month))
             ELSE Ok(FeatureVector(temperature, humidity, renewable, hour,
                                   day_of_week, month, is_weekend, is_business_hour))

-----------------------------------------------------------------------------
(* The model artifact and load_model *)

\* a fitted estimator, as pickle.load returns it
Estimator(name) == [k |-> "estimator", v |-> name]

\* what can be at MODEL_PATH: nothing, bytes pickle cannot read, a pickled
\* estimator, a pickled dict holding one under 'model', a pickled dict without 'model'
FileStates ==
    {[k |-> "missing", obj |-> Null], [k |-> "corrupt", obj |-> Null]}
    \cup {[k |-> "pickle", obj |-> o] :
            o \in {Estimator("rf_a"), Estimator("rf_b"),
                   PyDict([model |-> Estimator("rf_a")]),
                   PyDict([scaler |-> Null])}}

\* open(MODEL_PATH, 'rb') and pickle.load(f)
pickle_load(f) ==
    CASE f.k = "missing" -> Raise("[Errno 2] No such file or directory: 'random_forest_model.pkl'")
      [] f.k = "corrupt" -> Raise("invalid load key, 'x'.")
      [] f.k = "pickle" -> Ok(f.obj)

\* load_model with a fallback estimator installed when loading fails
load_model_Fallback(f, old_model) ==
    LET loaded == pickle_load(f)
    IN  IF loaded.ok
        THEN [model |-> loaded.val, returned |-> TRUE, raised |-> FALSE]
        ELSE [model |-> Estimator("rf_b"), returned |-> FALSE, raised |-> FALSE]

\* load_model(): the new value of the global `model` and the value returned
load_model(f, old_model) ==
    LET loaded == pickle_load(f)
    IN  IF loaded.ok
        THEN LET model_data == loaded.val
             IN  [model |-> IF model_data.k = "dict" /\ "model" \in DOMAIN model_data.v
                            THEN model_data.v["model"]
                            ELSE model_data,
                  returned |-> TRUE,
                  raised |-> FALSE]
        ELSE [model |-> old_model, returned |-> FALSE, raised |-> FALSE]

\* float() of what np.array([feature_values]) holds in a column
ArrayError(x) ==
    IF x.k = "str"
    THEN "could not convert string to float: '" \o x.v \o "'"
    ELSE "float() argument must be a string or a number, not '" \o TypeName(x) \o "'"

\* float(model.predict(np.array([feature_values]))[0]): the estimators are stand-ins
\* for the pickled regressor, each a fixed function of the row
model_predict(m, feature_values) ==
    IF m.k # "estimator"
    THEN Raise("'" \o TypeName(m) \o "' object has no attribute 'predict'")
    ELSE LET bad == {i \in 1..Len(feature_values) : ~IsNumber(feature_values[i])}
         IN  IF bad # {}
             THEN Raise(ArrayError(feature_values[CHOOSE i \in bad : \A j \in bad : i <= j]))
             ELSE IF m.v = "rf_a"
                  THEN Ok([k |-> "float",
                           v |-> NumVal(feature_values[1]) + NumVal(feature_values[4])])
                  ELSE Ok([k |-> "float",
                           v |-> NumVal(feature_values[13]) + NumVal(feature_values[16])])

-----------------------------------------------------------------------------
(* The prediction loop, the same text in predict() and in handler() *)

\* what `for ... in enumerate(features_list)` iterates over
Iterate(features_list) ==
    CASE features_list.k = "list" -> Ok(features_list.v)
      [] features_list.k = "dict" ->
            \* the keys; the requests of this model hold dicts of at most one key
            Ok(IF DOMAIN features_list.v = {} THEN <<>>
               ELSE <<PyStr(CHOOSE key \in DOMAIN features_list.v : TRUE)>>)
      [] features_list.k = "str" ->
            \* the characters; the requests of this model hold strings of at most one
            Ok(IF features_list.v = "" THEN <<>> ELSE <<PyStr(features_list.v)>>)
      [] OTHER -> Raise("'" \o TypeName(features_list) \o "' object is not iterable")

\* Prediction with the index counted from one
Prediction_OneBased(idx, prediction, features) ==
    PyDict([index |-> PyInt(idx + 1), predicted |-> prediction,
            timestamp |-> Get(features, "timestamp", Null)])

\* one entry of `predictions`
Prediction(idx, prediction, features) ==
    PyDict([index |-> PyInt(idx), predicted |-> prediction,
            timestamp |-> Get(features, "timestamp", Null)])

\* predict_loop with a failing item skipped instead of failing the batch
RECURSIVE predict_loop_Skip(_, _, _, _, _)
predict_loop_Skip(m, items, idx, predictions, calls) ==
    IF idx >= Len(items)
    THEN [ok |-> TRUE, val |-> predictions, msg |-> "", calls |-> calls]
    ELSE LET features == items[idx + 1]
             feature_values == transform_features_for_prediction(features)
         IN  IF ~feature_values.ok
             THEN predict_loop_Skip(m, items, idx + 1, predictions, calls)
             ELSE LET prediction == model_predict(m, feature_values.val)
                  IN  IF ~prediction.ok
                      THEN predict_loop_Skip(m, items, idx + 1, predictions, calls + 1)
                      ELSE predict_loop_Skip(m, items, idx + 1,
                                             Append(predictions,
                                                    Prediction(idx, prediction.val, features)),
                                             calls + 1)

\* the loop from item idx + 1 on: [ok, val = the predictions list, msg, calls = the
\* number of model.predict calls made]
RECURSIVE predict_loop(_, _, _, _, _)
predict_loop(m, items, idx, predictions, calls) ==
    IF idx >= Len(items)
    THEN [ok |-> TRUE, val |-> predictions, msg |-> "", calls |-> calls]
    ELSE LET features == items[idx + 1]
             feature_values == transform_features_for_prediction(features)
         IN  IF ~feature_values.ok
             THEN [ok |-> FALSE, val |-> <<>>, msg |-> feature_values.msg, calls |-> calls]
             ELSE LET prediction == model_predict(m, feature_values.val)
                  IN  IF ~prediction.ok
                      THEN [ok |-> FALSE, val |-> <<>>, msg |-> prediction.msg,
                            calls |-> calls + 1]
                      ELSE predict_loop(m, items, idx + 1,
                                        Append(predictions,
                                               Prediction(idx, prediction.val, features)),
                                        calls + 1)

\* `'features' in data`, for a truthy data
ContainsFeatures(data) ==
    CASE data.k = "dict" -> Ok("features" \in DOMAIN data.v)
      [] data.k = "list" -> Ok(\E i \in 1..Len(data.v) : data.v[i] = PyStr("features"))
      \* substring test; the strings of this model are "features" or do not hold it
      [] data.k = "str" -> Ok(data.v = "features")
      [] OTHER -> Raise("argument of type '" \o TypeName(data) \o "' is not iterable")

\* data['features'], for a data that contains 'features'
FeaturesOf(data) ==
    CASE data.k = "dict" -> Ok(data.v["features"])
      [] data.k = "list" -> Raise("list indices must be integers or slices, not str")
      [] data.k = "str" -> Raise("string indices must be integers")

\* from `if not data or 'features' not in data` to the end of the loop:
\* kind "invalid" (the 400 branch), "done" (val = predictions) or "raised" (msg)
predict_body(m, data) ==
    IF ~Truthy(data)
    THEN [kind |-> "invalid", val |-> <<>>, msg |-> "", calls |-> 0]
    ELSE LET has == ContainsFeatures(data)
         IN  IF ~has.ok
             THEN [kind |-> "raised", val |-> <<>>, msg |-> has.msg, calls |-> 0]
             ELSE IF ~has.val
             THEN [kind |-> "invalid", val |-> <<>>, msg |-> "", calls |-> 0]
             ELSE LET features_list == FeaturesOf(data)
                  IN  IF ~features_list.ok
                      THEN [kind |-> "raised", val |-> <<>>, msg |-> features_list.msg,
                            calls |-> 0]
                      ELSE LET items == Iterate(features_list.val)
                           IN  IF ~items.ok
                               THEN [kind |-> "raised", val |-> <<>>, msg |-> items.msg,
                                     calls |-> 0]
                               ELSE LET r == predict_loop(m, items.val, 0, <<>>, 0)
                                    IN  [kind |-> IF r.ok THEN "done" ELSE "raised",
                                         val |-> r.val, msg |-> r.msg, calls |-> r.calls]

-----------------------------------------------------------------------------
(* Requests and responses *)

\* a response: the status code, the JSON document of the body ('' as a str), and the
\* number of model.predict calls made while it was computed
Resp(status, body, calls) == [status |-> status, body |-> body, calls |-> calls]
NoResp == Resp(0, Null, 0)

ErrorDoc(msg) == PyDict([success |-> PyBool(FALSE), error |-> PyStr(msg)])
SuccessDoc(predictions) ==
    PyDict([success |-> PyBool(TRUE), predictions |-> PyList(predictions)])
\* datetime.now().isoformat() at clock reading t
IsoFormat(t) == PyStr("T" \o ToString(t))
HealthDoc(m, t) ==
    PyDict([status |-> PyStr("healthy"), model_loaded |-> PyBool(m # Null),
            timestamp |-> IsoFormat(t)])

\* a str that is the JSON text of doc
JsonText(doc) == [k |-> "jsontext", v |-> doc]
IsStr(x) == x.k \in {"str", "jsontext"}

\* json.loads(s)
json_loads(s) ==
    CASE s.k = "jsontext" -> Ok(s.v)
      [] s.k = "str" /\ s.v = "" -> Raise("Expecting value: line 1 column 1 (char 0)")
      [] s.k = "str" /\ s.v # "" ->
            Raise("Expecting property name enclosed in double quotes: line 1 column 2 (char 1)")

\* request.get_json() on the HTTP form of the request: the parsed document of a JSON
\* payload; BadRequest for one that does not parse; for no payload None, BadRequest or
\* UnsupportedMediaType, by the Flask release and the Content-Type header
get_json(req) ==
    IF ~req.has_body \/ req.body = Null \/ req.body = PyStr("")
    THEN {Ok(Null),
          Raise("400 Bad Request: Failed to decode JSON object"),
          Raise("415 Unsupported Media Type: Did not attempt to load JSON data")}
    ELSE IF req.body.k = "str"
    THEN {Raise("400 Bad Request: Failed to decode JSON object")}
    ELSE IF req.body.k = "jsontext"
    THEN {Ok(req.body.v)}
    ELSE {Ok(req.body)}

\* health()
health(m, t) == Resp(200, HealthDoc(m, t), 0)

\* predict(), gj being what request.get_json() does
predict(m, gj) ==
    IF m = Null
    THEN Resp(503, ErrorDoc("Model not loaded"), 0)
    ELSE IF ~gj.ok
    THEN Resp(500, ErrorDoc(gj.msg), 0)
    ELSE LET r == predict_body(m, gj.val)
         IN  CASE r.kind = "invalid" -> Resp(400, ErrorDoc("Invalid request"), r.calls)
               [] r.kind = "done" -> Resp(200, SuccessDoc(r.val), r.calls)
               [] r.kind = "raised" -> Resp(500, ErrorDoc(r.msg), r.calls)

\* path.endswith('/health'), a path being the sequence of its segments
EndsWithHealth(path) == Len(path) > 0 /\ path[Len(path)] = "health"

\* handler(event, context)
handler(m, event, t) ==
    IF event.httpMethod = PyStr("OPTIONS")
    THEN Resp(200, PyStr(""), 0)
    ELSE IF event.httpMethod = PyStr("GET") /\ EndsWithHealth(event.path)
    THEN Resp(200, HealthDoc(m, t), 0)
    ELSE IF event.httpMethod = PyStr("POST") /\ event.has_body
    THEN LET data == IF IsStr(event.body) THEN json_loads(event.body) ELSE Ok(event.body)
         IN  IF ~data.ok
             THEN Resp(500, ErrorDoc(data.msg), 0)
             ELSE LET r == predict_body(m, data.val)
                  IN  CASE r.kind = "invalid" ->
                                Resp(400, ErrorDoc("Invalid request"), r.calls)
                        [] r.kind = "done" -> Resp(200, SuccessDoc(r.val), r.calls)
                        [] r.kind = "raised" -> Resp(500, ErrorDoc(r.msg), r.calls)
    ELSE Resp(404, PyDict([error |-> PyStr("Not found")]), 0)

-----------------------------------------------------------------------------
(* The requests of the model *)

HealthPath == <<"api", "health">>
PredictPath == <<"api", "predict">>

Methods == {PyStr("GET"), PyStr("POST"), PyStr("OPTIONS"), PyStr("PUT"), Null}
Paths == {HealthPath, PredictPath, <<"api", "other">>, <<"v2", "health">>, <<>>}

\* the items of a features list: RawFeatures mappings the transformer and the
\* estimators accept, one the transformer rejects, one the estimators reject, a non-dict
Items ==
    {PyDict(<<>>),
     PyDict([hour |-> PyInt(18), is_weekend |-> PyInt(1), timestamp |-> PyStr("t1")]),
     PyDict([temperature |-> PyInt(30), renewable |-> PyInt(5), timestamp |-> PyInt(1700)]),
     PyDict([hour |-> Null, timestamp |-> PyStr("t3")]),
     PyDict([temperature |-> PyStr("hot")]),
     PyInt(5)}

FeatureLists == UNION {[1..n -> Items] : n \in 0..MaxBatch}

\* the values of data['features']
FeatureVals ==
    {PyList(s) : s \in FeatureLists}
    \cup {Null, PyInt(5), PyStr("x"), PyDict(<<>>), PyDict([hour |-> PyInt(18)])}

\* the parsed bodies
Docs ==
    {Null, PyDict(<<>>), PyList(<<>>), PyInt(5), PyStr("features"),
     PyDict([other |-> PyInt(1)]), PyList(<<PyStr("features")>>)}
    \cup {PyDict([features |-> x]) : x \in FeatureVals}

\* event['body']: None, a str (empty, not JSON, JSON text) or an already parsed dict
Bodies ==
    {Null, PyStr(""), PyStr("{bad")}
    \cup {JsonText(d) : d \in Docs}
    \cup {d \in Docs : d.k = "dict"}

Request(method, path, has_body, body) ==
    [httpMethod |-> method, path |-> path, has_body |-> has_body, body |-> body]

\* every method on every path without a body and with one JSON body, and POST on the
\* predict path and on another path with every body
Requests ==
    {Request(m, p, FALSE, Null) : m \in Methods, p \in Paths}
    \cup {Request(PyStr("POST"), p, TRUE, b) : p \in {PredictPath, <<"api", "other">>}, b \in Bodies}
    \cup {Request(m, p, TRUE, JsonText(PyDict([features |-> PyList(<<PyDict(<<>>)>>)]))) :
            m \in Methods, p \in Paths}

-----------------------------------------------------------------------------
(* The inputs of direct transformer calls *)

Fields == {"temperature", "humidity", "renewable", "hour", "day_of_week", "month",
           "is_weekend", "is_business_hour"}
CyclicFields == {"hour", "day_of_week", "month"}
Keys == Fields \cup {"timestamp"}

Absent == [k |-> "absent", v |-> 0]

\* the JSON scalars a field is given; the sine tables take whole numbers only
FieldValues(f) ==
    {Null, PyBool(TRUE), PyInt(0), PyInt(7), PyInt(9), PyStr("x")}
    \cup (IF f \in CyclicFields THEN {} ELSE {PyFloat(215, 10)})

FullSample ==
    [temperature |-> PyInt(30), humidity |-> PyInt(45), renewable |-> PyInt(5),
     hour |-> PyInt(18), day_of_week |-> PyInt(6), month |-> PyInt(12),
     is_weekend |-> PyInt(1), is_business_hour |-> PyInt(0),
     timestamp |-> PyStr("2024-06-01T18:00:00")]

\* base with the keys of DOMAIN g set to g's values, or removed where g says Absent
Edited(base, g) ==
    LET keep == (DOMAIN base \ DOMAIN g) \cup {f \in DOMAIN g : g[f] # Absent}
    IN  [f \in keep |-> IF f \in DOMAIN g THEN g[f] ELSE base[f]]

Edits ==
    UNION {{g \in [S -> UNION {FieldValues(f) : f \in Keys} \cup {Absent}] :
                \A f \in S : g[f] \in FieldValues(f) \cup {Absent}} :
           S \in {T \in SUBSET Keys : Cardinality(T) <= MaxEdits}}

TransformInputs == {PyDict(Edited(base, g)) : base \in {<<>>, FullSample}, g \in Edits}

-----------------------------------------------------------------------------
(* The service: startup, then requests answered by either entry point *)

NoRequest == Request(Null, <<>>, FALSE, Null)
NotCalled == [called |-> FALSE, out |-> Raise("")]

Init ==
    /\ pc = "start"
    /\ file \in FileStates
    /\ model = Null
    /\ model_loaded = FALSE
    /\ request = NoRequest
    /\ now = 0
    /\ flask_resp = NoResp
    /\ handler_resp = NoResp
    /\ tf_in = PyDict(<<>>)
    /\ tf_out = NotCalled

\* model_loaded = load_model(), at import
LoadModel ==
    /\ pc = "start"
    /\ LET r == load_model(file, model)
       IN  /\ model' = r.model
           /\ model_loaded' = r.returned
           /\ pc' = IF r.raised THEN "crashed" ELSE "idle"
    /\ UNCHANGED <<file, request, now, flask_resp, handler_resp, tf_in, tf_out>>

\* a request arrives, at clock reading t
Receive(req, t) ==
    /\ pc = "idle"
    /\ t >= now
    /\ pc' = "request"
    /\ request' = req
    /\ now' = t
    /\ flask_resp' = NoResp
    /\ handler_resp' = NoResp
    /\ UNCHANGED <<file, model, model_loaded, tf_in, tf_out>>

\* @app.route('/api/health', methods=['GET'])
FlaskHealth ==
    /\ pc = "request"
    /\ flask_resp = NoResp
    /\ request.httpMethod = PyStr("GET")
    /\ request.path = HealthPath
    /\ flask_resp' = health(model, now)
    /\ UNCHANGED <<pc, file, model, model_loaded, request, now, handler_resp, tf_in, tf_out>>

\* @app.route('/api/predict', methods=['POST'])
FlaskPredict ==
    /\ pc = "request"
    /\ flask_resp = NoResp
    /\ request.httpMethod = PyStr("POST")
    /\ request.path = PredictPath
    /\ \E gj \in get_json(request) : flask_resp' = predict(model, gj)
    /\ UNCHANGED <<pc, file, model, model_loaded, request, now, handler_resp, tf_in, tf_out>>

\* the serverless platform calls handler(event, context)
Handler ==
    /\ pc = "request"
    /\ handler_resp = NoResp
    /\ handler_resp' = handler(model, request, now)
    /\ UNCHANGED <<pc, file, model, model_loaded, request, now, flask_resp, tf_in, tf_out>>

\* the response has been returned; the process waits for the next request
Finish ==
    /\ pc = "request"
    /\ flask_resp # NoResp \/ handler_resp # NoResp
    /\ pc' = "idle"
    /\ request' = NoRequest
    /\ flask_resp' = NoResp
    /\ handler_resp' = NoResp
    /\ UNCHANGED <<file, model, model_loaded, now, tf_in, tf_out>>

Next ==
    \/ LoadModel
    \/ \E req \in Requests, t \in 0..MaxClock : Receive(req, t)
    \/ FlaskHealth
    \/ FlaskPredict
    \/ Handler
    \/ Finish

Spec == Init /\ [][Next]_vars

-----------------------------------------------------------------------------
(* Direct calls of the transformer *)

InitTransform ==
    /\ pc = "start"
    /\ file = [k |-> "missing", obj |-> Null]
    /\ model = Null
    /\ model_loaded = FALSE
    /\ request = NoRequest
    /\ now = 0
    /\ flask_resp = NoResp
    /\ handler_resp = NoResp
    /\ tf_in \in TransformInputs
    /\ tf_out = NotCalled

Transform ==
    /\ ~tf_out.called
    /\ tf_out' = [called |-> TRUE, out |-> transform_features_for_prediction(tf_in)]
    /\ UNCHANGED <<pc, file, model, model_loaded, request, now, flask_resp, handler_resp, tf_in>>

NextTransform == Transform

SpecTransform == InitTransform /\ [][NextTransform]_vars

-----------------------------------------------------------------------------
(* Vocabulary of the properties *)

IsPredictRequest == request.httpMethod = PyStr("POST") /\ request.path = PredictPath
IsHealthRequest == request.httpMethod = PyStr("GET") /\ request.path = HealthPath

\* the request carries a JSON body, as text or already parsed
HasJsonBody == request.has_body /\ request.body.k \in {"jsontext", "dict"}
ReqDoc == IF request.body.k = "jsontext" THEN request.body.v ELSE request.body

\* the request carries {"features": [...]}
HasBatch ==
    /\ HasJsonBody
    /\ ReqDoc.k = "dict"
    /\ "features" \in DOMAIN ReqDoc.v
    /\ ReqDoc.v["features"].k = "list"
Batch == ReqDoc.v["features"].v

\* transform, then inference, on one item
ItemOutcome(m, f) ==
    LET t == transform_features_for_prediction(f)
    IN  IF t.ok THEN model_predict(m, t.val) ELSE t
Failing(m) == {i \in 1..Len(Batch) : ~ItemOutcome(m, Batch[i]).ok}
FirstFailing(m) == CHOOSE i \in Failing(m) : \A j \in Failing(m) : i <= j

Answered(resp) == resp # NoResp
ModelNotLoaded == Resp(503, ErrorDoc("Model not loaded"), 0)
IsInvalidRequest(resp) == resp.status = 400 /\ resp.body = ErrorDoc("Invalid request")

-----------------------------------------------------------------------------
(* Properties *)

\* C1: for the same request with a JSON body and the same model state, handler()
\* returns the status code and the JSON body the Flask route returns.
C1_SameResponse ==
    (Answered(flask_resp) /\ Answered(handler_resp) /\ HasJsonBody)
        => /\ handler_resp.status = flask_resp.status
           /\ handler_resp.body = flask_resp.body

\* C2: with the model unset, POST /api/predict is answered 503 "Model not loaded"
\* by predict() and by handler(), whatever the payload, and model.predict is not called.
C2_UnsetModel503 ==
    (model = Null /\ IsPredictRequest)
        => /\ Answered(flask_resp) => flask_resp = ModelNotLoaded
           /\ Answered(handler_resp) => handler_resp = ModelNotLoaded

\* the body is absent, null or empty, or parses to a dict without 'features'
BodyMissingOrNoFeatures ==
    \/ ~request.has_body
    \/ request.body = Null
    \/ request.body = PyStr("")
    \/ HasJsonBody /\ (ReqDoc = Null \/ (ReqDoc.k = "dict" /\ "features" \notin DOMAIN ReqDoc.v))

\* C3: with the model loaded, POST /api/predict with a missing body or a body without
\* 'features' is answered 400 "Invalid request" by both entry points (by predict() at
\* least when the body is JSON that get_json parses, by handler() in every case).
C3_MissingBody400 ==
    (model # Null /\ IsPredictRequest /\ BodyMissingOrNoFeatures)
        => /\ (Answered(flask_resp) /\ HasJsonBody) => IsInvalidRequest(flask_resp)
           /\ Answered(handler_resp) => IsInvalidRequest(handler_resp)

\* the response a batch on which every item succeeds is to get
BatchResponseOk(resp) ==
    /\ resp.status = 200
    /\ DOMAIN resp.body.v = {"success", "predictions"}
    /\ resp.body.v["success"] = PyBool(TRUE)
    /\ LET preds == resp.body.v["predictions"].v
       IN  /\ Len(preds) = Len(Batch)
           /\ \A i \in 1..Len(Batch) :
                /\ preds[i].v["index"] = PyInt(i - 1)
                /\ preds[i].v["predicted"] = ItemOutcome(model, Batch[i]).val
                /\ preds[i].v["timestamp"] =
                       (IF "timestamp" \in DOMAIN Batch[i].v
                        THEN Batch[i].v["timestamp"] ELSE Null)

\* C4: with the model loaded and a batch of n items on which transform and inference
\* all succeed, the response is 200, success true, with n predictions, entry i having
\* index i, the model's output for transform(f_i) and f_i's timestamp or null.
C4_OnePredictionPerItem ==
    (model # Null /\ IsPredictRequest /\ HasBatch /\ Failing(model) = {})
        => /\ Answered(flask_resp) => BatchResponseOk(flask_resp)
           /\ Answered(handler_resp) => BatchResponseOk(handler_resp)

C4_Witness ==
    /\ model = Estimator("rf_b")
    /\ IsPredictRequest /\ HasBatch /\ Failing(model) = {}
    /\ Len(Batch) = 2 /\ Batch[1] # Batch[2]
    /\ "timestamp" \in DOMAIN Batch[1].v /\ "timestamp" \notin DOMAIN Batch[2].v
    /\ flask_resp.status = 200 /\ handler_resp.status = 200

\* the response a batch whose item k raises is to get
BatchResponseFailed(resp, m) ==
    /\ resp.status = 500
    /\ resp.body = ErrorDoc(ItemOutcome(m, Batch[FirstFailing(m)]).msg)

NoErrorWithPredictions(resp) ==
    (Answered(resp) /\ resp.body.k = "dict")
        => ~({"error", "predictions"} \subseteq DOMAIN resp.body.v)

\* C5: when transform or inference raises on an item of the batch, the response is
\* 500 {success: false, error: the exception's message} without any prediction; no
\* response carries an error together with predictions.
C5_BatchAtomic ==
    /\ NoErrorWithPredictions(flask_resp)
    /\ NoErrorWithPredictions(handler_resp)
    /\ (model # Null /\ Answered(flask_resp) /\ IsPredictRequest /\ HasBatch
            /\ Failing(model) # {})
        => BatchResponseFailed(flask_resp, model)
    /\ (Answered(handler_resp) /\ request.httpMethod = PyStr("POST") /\ HasBatch
            /\ Failing(model) # {})
        => BatchResponseFailed(handler_resp, model)

C5_Witness ==
    /\ model = Estimator("rf_a")
    /\ IsPredictRequest /\ HasBatch
    /\ Len(Batch) = 2 /\ Failing(model) # {} /\ FirstFailing(model) = 2
    /\ flask_resp.status = 500 /\ handler_resp.status = 500
    /\ flask_resp.calls = 1

\* C6: handler() answers OPTIONS with 200 and an empty body on any path, answers 404
\* to everything that is neither GET on the health path nor POST on the predict path,
\* and runs no prediction for a POST to another path.
C6_HandlerRouting ==
    Answered(handler_resp)
        => /\ request.httpMethod = PyStr("OPTIONS")
                => handler_resp.status = 200 /\ handler_resp.body = PyStr("")
           /\ (request.httpMethod # PyStr("OPTIONS") /\ ~IsPredictRequest
                    /\ ~(request.httpMethod = PyStr("GET") /\ EndsWithHealth(request.path)))
                => handler_resp.status = 404
           /\ (request.httpMethod = PyStr("POST") /\ request.path # PredictPath)
                => handler_resp.calls = 0 /\ handler_resp.status # 200

UniformError(resp) ==
    (Answered(resp) /\ resp.status # 200)
        => /\ resp.body.k = "dict"
           /\ DOMAIN resp.body.v = {"success", "error"}
           /\ resp.body.v["success"] = PyBool(FALSE)
           /\ resp.body.v["error"].k = "str"

\* C7: nothing propagates out of predict() or handler(), and every response with a
\* status other than 200 has the body {success: false, error: message}.
C7_UniformErrors ==
    /\ pc # "crashed"
    /\ UniformError(flask_resp)
    /\ UniformError(handler_resp)

\* C10: when the model file is missing or unreadable, load_model() returns False
\* without raising and leaves the model unset; the process serves, and after any
\* requests the model is still unset and health answers 200 with model_loaded false.
C10_LoadFailureDegrades ==
    (file.k \in {"missing", "corrupt"} /\ pc # "start")
        => /\ pc \in {"idle", "request"}
           /\ model = Null
           /\ model_loaded = FALSE
           /\ (Answered(flask_resp) /\ IsHealthRequest)
                => /\ flask_resp.status = 200
                   /\ flask_resp.body.v["model_loaded"] = PyBool(FALSE)
           /\ (Answered(handler_resp) /\ IsHealthRequest)
                => /\ handler_resp.status = 200
                   /\ handler_resp.body.v["model_loaded"] = PyBool(FALSE)

C10_Witness ==
    /\ file.k = "corrupt"
    /\ IsHealthRequest
    /\ now = 1
    /\ flask_resp.status = 200 /\ handler_resp.status = 200
    /\ handler_resp.body.v["model_loaded"] = PyBool(FALSE)

-----------------------------------------------------------------------------
(* Properties of the transformer, under SpecTransform *)

\* the documented defaults
DocumentedDefault(f) ==
    CASE f = "temperature" -> PyFloat(22, 1)
      [] f = "humidity" -> PyFloat(60, 1)
      [] f = "renewable" -> PyFloat(0, 1)
      [] f = "hour" -> PyInt(12)
      [] f = "day_of_week" -> PyInt(1)
      [] f = "month" -> PyInt(6)
      [] f = "is_weekend" -> PyInt(0)
      [] f = "is_business_hour" -> PyInt(1)

\* the value of field f of the input, absent fields taking the documented default
Effective(f) == IF f \in DOMAIN tf_in.v THEN tf_in.v[f] ELSE DocumentedDefault(f)

\* every field given is a JSON number
AllNumeric == \A f \in DOMAIN tf_in.v \cap Fields : tf_in.v[f].k \in {"int", "float"}

\* the pass-through positions hold the inputs as given
PassThrough(vec) ==
    /\ vec[4] = Effective("temperature")
    /\ vec[5] = Effective("humidity")
    /\ vec[14] = Effective("is_weekend")
    /\ vec[15] = Effective("is_business_hour")
    /\ vec[16] = Effective("renewable")

\* the documented derivation, position by position
DocumentedOrder(vec) ==
    LET h == AsInt(Effective("hour"))
        d == AsInt(Effective("day_of_week"))
        mo == AsInt(Effective("month"))
        wm == IF NumVal(Effective("is_weekend")) # 0 THEN 12 ELSE 10
        bm == IF NumVal(Effective("is_business_hour")) # 0 THEN 11 ELSE 8
        hm == 1000 + 3 * Sin100(h - 6, 12)
    IN  /\ vec[1] = PyFloat(50 * hm * wm * bm, 100000)
        /\ vec[1].v % 100 = 0
        /\ vec[2] = [k |-> "float", v |-> (vec[1].v \div 100) * 95]
        /\ vec[3] = [k |-> "float", v |-> (vec[1].v \div 100) * 90]
        /\ vec[6] = Hundredths(Sin100(h, 24))
        /\ vec[7] = Hundredths(Cos100(h, 24))
        /\ vec[8] = Hundredths(Sin100(d, 7))
        /\ vec[9] = Hundredths(Cos100(d, 7))
        /\ vec[10] = Hundredths(Sin100(mo, 12))
        /\ vec[11] = Hundredths(Cos100(mo, 12))
        /\ vec[12] = PyFloat(50 * hm, 1000)
        /\ vec[13] = PyFloat(50 * wm, 10)

====
